---- MODULE Spec2Model ----
(***************************************************************************)
(* Consumer pool, heartbeat and rebalance subsystem of rust-backend.       *)
(*                                                                         *)
(* The broker (Redis) state is the rebalance lock key, the heartbeat hash  *)
(* and, per stream, the entries with the consumer group's pending list.    *)
(* The programs are the rebalancer ticks (cronjob-service/jobs/balance.rs),*)
(* the consumer workers, heartbeat emitters and pool supervisors           *)
(* (consumer-service), and the process root with its signal trap (main.rs).*)
(* Every broker call is one step: it is a suspension point of the task.    *)
(***************************************************************************)
EXTENDS Integers, Sequences, FiniteSets, TLC

(***************************************************************************)
(* Program constants                                                       *)
(***************************************************************************)
HEARTBEAT_TIMEOUT_SECONDS == 60
LOCK_TTL_SECONDS == 30
BATCH_SIZE == 10
REBALANCE_CHECK_INTERVAL_SECONDS == 10
PENDING_SCAN_COUNT == 1000
READ_COUNT == 10
HANDLER_CONCURRENCY == 5

(***************************************************************************)
(* Bounds of the model                                                     *)
(***************************************************************************)
MaxConsumerCount == 2
MaxEntries == 2
MaxBacklog == 11
MaxTime == 30
NumRebalancers == 2

Streams == {"task_type_a", "task_type_b"}
Ordinals == 0 .. (MaxConsumerCount - 1)
EntryIds == 1 .. MaxBacklog

\* the ids of the entries the producers of the small configurations append
ProducedIds == 1 .. MaxEntries
Rebalancers == 1 .. NumRebalancers

\* RedisTask.consumer_name_template of the task registered for stream s
consumer_name_template(s) == IF s = "task_type_a" THEN "task_consumer" ELSE "task_consumer"

\* format!("{}_{}", redis_task.consumer_name_template, i)
ConsumerName(s, i) == consumer_name_template(s) \o "_" \o ToString(i)

Workers == Streams \X Ordinals
Identity(w) == ConsumerName(w[1], w[2])
ConsumerNames == {Identity(w) : w \in Workers}

\* the fields the heartbeat hash can hold: the names of this process's workers and the
\* name of the next ordinal, written by a process started with a larger
\* MAX_CONSUMER_COUNT
ForeignName == ConsumerName("task_type_a", MaxConsumerCount)
HashFields == ConsumerNames \cup {ForeignName}

VARIABLES
    now,            \* wall clock, unix seconds
    lock_key,       \* rust_backend:rebalance_lock: expiry instant, or NoKey
    heartbeat_hash, \* rust_backend_consumers:heartbeat: field -> value
    stream,         \* per stream and entry id: state and pending owner
    tick_pc,        \* rebalancer tick: position in rebalance_with_retry
    tick_failed,    \* rebalance: failed_consumers still to process
    tick_active,    \* rebalance: active_consumers_by_group[rust-backend]
    tick_pending,   \* rebalance_failed_consumer: pending_messages
    tick_chunk,     \* redistribute_messages_batch: chunk_idx
    tick_msg,       \* redistribute_messages_individually: msg_idx
    last_fire,      \* cron: the instant of the process's last tick
    tick_out,       \* rebalance_with_retry: rebalance_result, and the errors it swallowed
    shutdown,       \* watch channel value
    trap_pc,        \* shutdown_signal
    sup_pc,         \* guard_start_create_task_consumers, per pool
    worker_pc,      \* consumer_task_worker
    batch,          \* consume_redis_message: the reply's ids with each future's state
    hb_pc,          \* consumer_task_send_heartbeat
    hb_record,      \* the record built for the hset in flight
    max_consumer_count, \* app_config.redis.max_consumer_count
    root,           \* main: the three spawned tasks and the try_join! over their handles
    claimed_by,     \* history: per entry, the running ticks whose claim took it
    handled_by,     \* history: per worker, the entries whose handle_task returned in it
    acked_by        \* history: per worker, the entries named in an xack it issued

vars == <<now, lock_key, heartbeat_hash, stream, tick_pc, tick_failed, tick_active,
          tick_pending, tick_chunk, tick_msg, last_fire, tick_out, shutdown, trap_pc, sup_pc,
          worker_pc, batch, hb_pc, hb_record, max_consumer_count, root, claimed_by, handled_by, acked_by>>

broker_vars == <<lock_key, heartbeat_hash, stream>>
tick_vars == <<tick_pc, tick_failed, tick_active, tick_pending, tick_chunk, tick_msg, last_fire,
               tick_out>>
proc_vars == <<shutdown, trap_pc, sup_pc, worker_pc, batch, hb_pc, hb_record,
               max_consumer_count, root, handled_by, acked_by>>
hist_vars == <<claimed_by, handled_by, acked_by>>

(***************************************************************************)
(* Values                                                                  *)
(***************************************************************************)
NoKey == -1
Nil == "nil"

\* a hash field that does not exist
NoField == [kind |-> "nil", stream_name |-> "", consumer_name |-> "", last_heartbeat |-> 0]

\* RedisConsumerHeartBeat
HeartBeat(s, c, ts) == [stream_name |-> s, consumer_name |-> c, last_heartbeat |-> ts]

\* serde_json::to_string(&redis_heartbeat): the JSON object with the three fields
ToJson(hb) == [kind |-> "json", stream_name |-> hb.stream_name,
               consumer_name |-> hb.consumer_name, last_heartbeat |-> hb.last_heartbeat]

\* serde_json::from_str::<RedisConsumerHeartBeat>: Ok(record) for a JSON object with
\* the three fields, Err otherwise
FromJsonOk(v) == v.kind = "json"
FromJson(v) == HeartBeat(v.stream_name, v.consumer_name, v.last_heartbeat)

\* a hash value that is UTF-8 text but not the JSON of a heartbeat record
Garbage == [kind |-> "text", stream_name |-> "", consumer_name |-> "", last_heartbeat |-> 0]

\* a hash value that is not UTF-8
Binary == [kind |-> "binary", stream_name |-> "", consumer_name |-> "", last_heartbeat |-> 0]

NoEntry == [st |-> "absent", owner |-> "", payload |-> ""]

Min(a, b) == IF a < b THEN a ELSE b

\* the enumerations of a finite set, in every order (HashMap iteration order)
Orders(S) == {q \in [1 .. Cardinality(S) -> S] : \A i, j \in 1 .. Cardinality(S) : i # j => q[i] # q[j]}

\* the ids of a reply in the order the broker lists them: ascending
InIdOrder(ids) == [k \in 1 .. Cardinality(ids) |->
                     CHOOSE id \in ids : Cardinality({j \in ids : j < id}) = k - 1]

(***************************************************************************)
(* Broker commands                                                         *)
(***************************************************************************)
\* a key with a TTL exists until its expiry instant
KeyPresent(key, t) == key # NoKey /\ key > t

\* SET key "locked" NX GET EX ttl: the reply is the old value, or nil when the key
\* did not exist, and only then is the key set
SetNxGetEx(key, t, ttl) ==
    IF KeyPresent(key, t) THEN [reply |-> "locked", key |-> key]
    ELSE [reply |-> Nil, key |-> t + ttl]

\* XPENDING stream group - + count: the first count pending ids of the group, with owners
XPendingRange(s, count) ==
    LET all == {id \in EntryIds : stream[s][id].st = "pending"}
    IN {id \in all : Cardinality({j \in all : j < id}) < count}

\* XCLAIM stream group owner 0 ids: every id still in the pending list moves to owner
XClaimed(s, ids) == {id \in ids : stream[s][id].st = "pending"}
XClaim(s, owner, ids) ==
    [stream EXCEPT ![s] = [id \in EntryIds |->
        IF id \in XClaimed(s, ids) THEN [stream[s][id] EXCEPT !.owner = owner] ELSE stream[s][id]]]

\* HGETALL key read as HashMap<String, String>: the reply converts only when every
\* value is UTF-8
HGetAllOk == \A f \in HashFields : heartbeat_hash[f].kind # "binary"

\* HDEL key field
HDel(field) == [heartbeat_hash EXCEPT ![field] = NoField]

(***************************************************************************)
(* Rebalancer: one tick of the cron job "0/10 * * * * *" per process        *)
(***************************************************************************)
\* acquire_rebalance_lock: Ok(result.is_some()) of the SET NX GET reply
acquire_rebalance_lock(key, t) ==
    LET r == SetNxGetEx(key, t, LOCK_TTL_SECONDS)
    IN [acquired |-> r.reply # Nil, key |-> r.key]

\* a variant that takes a record of exactly the timeout's age as failed
IsFailedAtTimeout(hb, t) == t - hb.last_heartbeat >= HEARTBEAT_TIMEOUT_SECONDS

\* rebalance: time_since_heartbeat > HEARTBEAT_TIMEOUT_SECONDS
IsFailed(hb, t) == t - hb.last_heartbeat > HEARTBEAT_TIMEOUT_SECONDS

\* get_all_consumer_statuses: the fields whose value parses and names the field
ValidFields == {f \in HashFields :
                  /\ heartbeat_hash[f].kind # "nil"
                  /\ FromJsonOk(heartbeat_hash[f])
                  /\ FromJson(heartbeat_hash[f]).consumer_name = f}

\* a variant that returns the ids of the XPENDING reply whoever owns them
get_pending_of_group(s, consumer) == InIdOrder(XPendingRange(s, PENDING_SCAN_COUNT))

\* get_pending_messages: the ids of the XPENDING reply owned by consumer, in id order
get_pending_messages(s, consumer) ==
    LET ids == {id \in XPendingRange(s, PENDING_SCAN_COUNT) : stream[s][id].owner = consumer}
    IN InIdOrder(ids)

\* message_ids.chunks(BATCH_SIZE): chunk k, as the positions it covers
ChunkCount(q) == (Len(q) + BATCH_SIZE - 1) \div BATCH_SIZE
Chunk(q, k) == SubSeq(q, k * BATCH_SIZE + 1, Min(Len(q), (k + 1) * BATCH_SIZE))
SeqSet(q) == {q[i] : i \in 1 .. Len(q)}

\* a variant that always takes the first live consumer
RoundRobinFirst(active, idx) == active[1].consumer_name

\* consumer_names.get(idx % consumer_names.len())
RoundRobin(active, idx) == active[(idx % Len(active)) + 1].consumer_name

\* where rebalance continues after the snapshot or after one failed consumer
AfterConsumer(failed, active) ==
    IF failed = <<>> THEN "release"
    ELSE IF active = <<>> THEN "hdel"
    ELSE "xpending"

\* where redistribute_messages_batch continues after chunk k
AfterChunk(q, k) == IF k + 1 < ChunkCount(q) THEN "xclaim" ELSE "hdel"

\* rebalance_with_retry before rebalance has returned: no rebalance_result yet, no
\* error of the lock commands or of a consumer's handling swallowed yet
NoOutcome == [result |-> "none", lock_err |-> FALSE, consumer_err |-> FALSE]

\* the value rebalance_with_retry returns: Ok(()) at the early return and when
\* rebalance returned Ok, the error of rebalance otherwise
Returned(out) == [out EXCEPT !.result = IF @ = "none" THEN "ok" ELSE @]

\* the scheduler starts the job of process t
TickFire(t) ==
    /\ tick_pc[t] = "idle"
    /\ last_fire[t] < now
    /\ tick_pc' = [tick_pc EXCEPT ![t] = "acquire"]
    /\ last_fire' = [last_fire EXCEPT ![t] = now]
    /\ tick_out' = [tick_out EXCEPT ![t] = NoOutcome]
    /\ UNCHANGED <<now, broker_vars, tick_failed, tick_active, tick_pending, tick_chunk,
                   tick_msg, proc_vars, claimed_by>>

\* rebalance_with_retry: the acquire, and the early return when it says false
AcquireLock(t) ==
    /\ tick_pc[t] = "acquire"
    /\ LET r == acquire_rebalance_lock(lock_key, now)
       IN /\ lock_key' = r.key
          /\ tick_pc' = [tick_pc EXCEPT ![t] = IF r.acquired THEN "hgetall" ELSE "idle"]
          /\ tick_out' = [tick_out EXCEPT ![t] = IF r.acquired THEN @ ELSE Returned(@)]
    /\ UNCHANGED <<now, heartbeat_hash, stream, tick_failed, tick_active, tick_pending,
                   tick_chunk, tick_msg, last_fire, proc_vars, claimed_by>>

\* rebalance: the snapshot and the classification; when the hgetall reply does not
\* convert, get_all_consumer_statuses returns the error, rebalance returns it and
\* rebalance_with_retry goes on to release the lock
GetStatuses(t) ==
    /\ tick_pc[t] = "hgetall"
    /\ IF HGetAllOk
       THEN \E order \in Orders(ValidFields) :
              LET statuses == [i \in 1 .. Len(order) |-> FromJson(heartbeat_hash[order[i]])]
                  failed == SelectSeq(statuses, LAMBDA hb : IsFailed(hb, now))
                  active == SelectSeq(statuses, LAMBDA hb : ~IsFailed(hb, now))
              IN /\ tick_failed' = [tick_failed EXCEPT ![t] = failed]
                 /\ tick_active' = [tick_active EXCEPT ![t] = active]
                 /\ tick_pc' = [tick_pc EXCEPT ![t] = AfterConsumer(failed, active)]
                 /\ UNCHANGED tick_out
       ELSE /\ tick_failed' = [tick_failed EXCEPT ![t] = <<>>]
            /\ tick_active' = [tick_active EXCEPT ![t] = <<>>]
            /\ tick_pc' = [tick_pc EXCEPT ![t] = "release"]
            /\ tick_out' = [tick_out EXCEPT ![t].result = "err"]
    /\ UNCHANGED <<now, broker_vars, tick_pending, tick_chunk, tick_msg, last_fire,
                   proc_vars, claimed_by>>

\* rebalance_failed_consumer: the pending listing
ListPending(t) ==
    /\ tick_pc[t] = "xpending"
    /\ LET c == Head(tick_failed[t])
           ids == get_pending_messages(c.stream_name, c.consumer_name)
       IN /\ tick_pending' = [tick_pending EXCEPT ![t] = ids]
          /\ tick_pc' = [tick_pc EXCEPT ![t] = IF ids = <<>> THEN "hdel" ELSE "xclaim"]
    /\ tick_chunk' = [tick_chunk EXCEPT ![t] = 0]
    /\ UNCHANGED <<now, broker_vars, tick_failed, tick_active, tick_msg, last_fire, tick_out,
                   proc_vars, claimed_by>>

\* redistribute_messages_batch: the claim of one chunk
ClaimChunk(t) ==
    /\ tick_pc[t] = "xclaim"
    /\ LET c == Head(tick_failed[t])
           k == tick_chunk[t]
           ids == SeqSet(Chunk(tick_pending[t], k))
           target == RoundRobin(tick_active[t], k)
           claimed == XClaimed(c.stream_name, ids)
       IN /\ stream' = XClaim(c.stream_name, target, ids)
          /\ claimed_by' = [e \in DOMAIN claimed_by |->
                IF e[1] = c.stream_name /\ e[2] \in claimed
                THEN claimed_by[e] \cup {t} ELSE claimed_by[e]]
          /\ IF claimed = {}
             THEN /\ tick_pc' = [tick_pc EXCEPT ![t] = "xclaim_one"]
                  /\ tick_msg' = [tick_msg EXCEPT ![t] = 0]
                  /\ UNCHANGED tick_chunk
             ELSE /\ tick_pc' = [tick_pc EXCEPT ![t] = AfterChunk(tick_pending[t], k)]
                  /\ tick_chunk' = [tick_chunk EXCEPT ![t] = k + 1]
                  /\ UNCHANGED tick_msg
    /\ UNCHANGED <<now, lock_key, heartbeat_hash, tick_failed, tick_active, tick_pending,
                   last_fire, tick_out, proc_vars>>

\* a variant that claims every message of the chunk to the chunk's target
ClaimOneToChunkTarget(t) ==
    /\ tick_pc[t] = "xclaim_one"
    /\ LET c == Head(tick_failed[t])
           k == tick_chunk[t]
           m == tick_msg[t]
           chunk == Chunk(tick_pending[t], k)
           id == chunk[m + 1]
           target == RoundRobin(tick_active[t], k)
           claimed == XClaimed(c.stream_name, {id})
       IN /\ stream' = XClaim(c.stream_name, target, {id})
          /\ claimed_by' = [e \in DOMAIN claimed_by |->
                IF e[1] = c.stream_name /\ e[2] \in claimed
                THEN claimed_by[e] \cup {t} ELSE claimed_by[e]]
          /\ IF m + 1 < Len(chunk)
             THEN /\ tick_msg' = [tick_msg EXCEPT ![t] = m + 1]
                  /\ UNCHANGED <<tick_pc, tick_chunk>>
             ELSE /\ tick_pc' = [tick_pc EXCEPT ![t] = AfterChunk(tick_pending[t], k)]
                  /\ tick_chunk' = [tick_chunk EXCEPT ![t] = k + 1]
                  /\ tick_msg' = [tick_msg EXCEPT ![t] = 0]
    /\ UNCHANGED <<now, lock_key, heartbeat_hash, tick_failed, tick_active, tick_pending,
                   last_fire, tick_out, proc_vars>>

\* redistribute_messages_individually: the claim of one message of the chunk
ClaimOne(t) ==
    /\ tick_pc[t] = "xclaim_one"
    /\ LET c == Head(tick_failed[t])
           k == tick_chunk[t]
           m == tick_msg[t]
           chunk == Chunk(tick_pending[t], k)
           id == chunk[m + 1]
           target == RoundRobin(tick_active[t], m)
           claimed == XClaimed(c.stream_name, {id})
       IN /\ stream' = XClaim(c.stream_name, target, {id})
          /\ claimed_by' = [e \in DOMAIN claimed_by |->
                IF e[1] = c.stream_name /\ e[2] \in claimed
                THEN claimed_by[e] \cup {t} ELSE claimed_by[e]]
          /\ IF m + 1 < Len(chunk)
             THEN /\ tick_msg' = [tick_msg EXCEPT ![t] = m + 1]
                  /\ UNCHANGED <<tick_pc, tick_chunk>>
             ELSE /\ tick_pc' = [tick_pc EXCEPT ![t] = AfterChunk(tick_pending[t], k)]
                  /\ tick_chunk' = [tick_chunk EXCEPT ![t] = k + 1]
                  /\ tick_msg' = [tick_msg EXCEPT ![t] = 0]
    /\ UNCHANGED <<now, lock_key, heartbeat_hash, tick_failed, tick_active, tick_pending,
                   last_fire, tick_out, proc_vars>>

\* a variant that goes on to the next failed consumer without the hdel
RemoveStatusSkipped(t) ==
    /\ tick_pc[t] = "hdel"
    /\ LET rest == Tail(tick_failed[t])
       IN /\ tick_failed' = [tick_failed EXCEPT ![t] = rest]
          /\ tick_pc' = [tick_pc EXCEPT ![t] = AfterConsumer(rest, tick_active[t])]
    /\ tick_pending' = [tick_pending EXCEPT ![t] = <<>>]
    /\ tick_chunk' = [tick_chunk EXCEPT ![t] = 0]
    /\ UNCHANGED <<now, broker_vars, tick_active, tick_msg, last_fire, tick_out, proc_vars,
                   claimed_by>>

\* remove_consumer_status, then the next failed consumer
RemoveStatus(t) ==
    /\ tick_pc[t] = "hdel"
    /\ LET c == Head(tick_failed[t])
           rest == Tail(tick_failed[t])
       IN /\ heartbeat_hash' = HDel(c.consumer_name)
          /\ tick_failed' = [tick_failed EXCEPT ![t] = rest]
          /\ tick_pc' = [tick_pc EXCEPT ![t] = AfterConsumer(rest, tick_active[t])]
    /\ tick_pending' = [tick_pending EXCEPT ![t] = <<>>]
    /\ tick_chunk' = [tick_chunk EXCEPT ![t] = 0]
    /\ UNCHANGED <<now, lock_key, stream, tick_active, tick_msg, last_fire, tick_out, proc_vars,
                   claimed_by>>

\* release_rebalance_lock: DEL key, and the tick returns
ReleaseLock(t) ==
    /\ tick_pc[t] = "release"
    /\ lock_key' = NoKey
    /\ tick_pc' = [tick_pc EXCEPT ![t] = "idle"]
    /\ tick_failed' = [tick_failed EXCEPT ![t] = <<>>]
    /\ tick_active' = [tick_active EXCEPT ![t] = <<>>]
    /\ claimed_by' = [e \in DOMAIN claimed_by |-> claimed_by[e] \ {t}]
    /\ tick_out' = [tick_out EXCEPT ![t] = Returned(@)]
    /\ UNCHANGED <<now, heartbeat_hash, stream, tick_pending, tick_chunk, tick_msg,
                   last_fire, proc_vars>>

\* ten seconds pass once the scheduler of every running rebalancer process has fired
\* the job of this instant (the job may still be running); a key whose TTL has run
\* out is gone
AdvanceTime(ticking) ==
    /\ now < MaxTime
    /\ \A t \in ticking : last_fire[t] = now
    /\ now' = now + REBALANCE_CHECK_INTERVAL_SECONDS
    /\ lock_key' = IF KeyPresent(lock_key, now') THEN lock_key ELSE NoKey
    /\ UNCHANGED <<heartbeat_hash, stream, tick_vars, proc_vars, claimed_by>>

(***************************************************************************)
(* Consumer process: signal trap, pool supervisors, workers, emitters      *)
(***************************************************************************)
PoolOf(s) == {w \in Workers : w[1] = s}

\* (0..app_config.redis.max_consumer_count): the pairs the supervisor of s creates
Spawned(s) == {w \in PoolOf(s) : w[2] < max_consumer_count}

\* XREADGROUP ... COUNT count STREAMS s 0: the consumer's own pending entries
ReadPending(s, consumer) ==
    LET all == {id \in EntryIds : stream[s][id].st = "pending" /\ stream[s][id].owner = consumer}
    IN {id \in all : Cardinality({j \in all : j < id}) < READ_COUNT}

\* XREADGROUP ... COUNT count STREAMS s >: the entries never delivered to the group
ReadNew(s) ==
    LET all == {id \in EntryIds : stream[s][id].st = "new"}
    IN {id \in all : Cardinality({j \in all : j < id}) < READ_COUNT}

\* the entries of a reply become pending against the reader
Deliver(strm, s, consumer, ids) ==
    [strm EXCEPT ![s] = [id \in EntryIds |->
        IF id \in ids THEN [strm[s][id] EXCEPT !.st = "pending", !.owner = consumer]
        ELSE strm[s][id]]]

\* a variant whose ack leaves the ids in the pending list
XAckKeepsPending(strm, s, ids) == strm

\* XACK s group ids: the ids leave the pending list, whoever owns them
XAck(strm, s, ids) ==
    [strm EXCEPT ![s] = [id \in EntryIds |->
        IF id \in ids /\ strm[s][id].st = "pending"
        THEN [strm[s][id] EXCEPT !.st = "acked", !.owner = ""]
        ELSE strm[s][id]]]

\* key.ids of a reply, one future per id, none polled yet
NewBatch(ids) == LET q == InIdOrder(ids)
                 IN [i \in 1 .. Len(q) |-> [id |-> q[i], st |-> "queued"]]

BatchIds(b) == {b[i].id : i \in 1 .. Len(b)}
InFlight(b) == {i \in 1 .. Len(b) : b[i].st = "running"}
Queued(b) == {i \in 1 .. Len(b) : b[i].st = "queued"}
Finished(b) == \A i \in 1 .. Len(b) : b[i].st \in {"ok", "err", "skipped"}

\* consume_single_redis_message up to its first await: an entry whose "message" value
\* is not UTF-8 text is only logged, otherwise handle_task is called
FirstPoll(payload) == IF payload = "binary" THEN "skipped" ELSE "running"

\* a variant that starts every future of the batch at once
PollAll(s, b) == [i \in 1 .. Len(b) |->
                    IF b[i].st = "queued"
                    THEN [b[i] EXCEPT !.st = FirstPoll(stream[s][b[i].id].payload)]
                    ELSE b[i]]

\* buffer_unordered(5): futures are started in order while fewer than 5 are in flight;
\* a future that is done at its first poll takes no place
Poll(s, b) ==
    LET free == HANDLER_CONCURRENCY - Cardinality(InFlight(b))
        stays(j) == FirstPoll(stream[s][b[j].id].payload) = "running"
        started == {i \in Queued(b) : Cardinality({j \in Queued(b) : j < i /\ stays(j)}) < free}
    IN [i \in 1 .. Len(b) |->
          IF i \in started THEN [b[i] EXCEPT !.st = FirstPoll(stream[s][b[i].id].payload)]
          ELSE b[i]]

\* handle_task's result for a payload
HandleResult(payload) == IF payload = "err" THEN "err" ELSE "ok"

\* a variant whose loop head does not look at the shutdown value
LoopTopUnchecked == "read0"

\* a variant whose next cycle starts at the read with cursor ">"
LoopTopNewFirst == IF shutdown THEN "ended" ELSE "readnew"

\* consumer_task_worker: the loop head
LoopTop == IF shutdown THEN "ended" ELSE "read0"

HandlePc(cursor) == IF cursor = "0" THEN "handle0" ELSE "handlenew"
XAckPc(cursor) == IF cursor = "0" THEN "xack0" ELSE "xacknew"
AfterBatch(cursor) == IF cursor = "0" THEN "readnew" ELSE LoopTop
CursorOf(pc) == IF pc \in {"read0", "handle0", "xack0"} THEN "0" ELSE ">"

\* a variant that acknowledges only the ids whose handler returned Ok
AckIdsHandledOk(b) == {b[i].id : i \in {j \in 1 .. Len(b) : b[j].st # "err"}}

\* the ids consume_redis_message passes to xack once the batch's futures are done
AckIds(b) == BatchIds(b)

\* consume_redis_message on a reply: start the futures; when none is left in flight
\* the xack follows without a suspension point in between
Consume(w, strm, b, cursor) ==
    IF Len(b) = 0
    THEN /\ stream' = strm
         /\ worker_pc' = [worker_pc EXCEPT ![w] = AfterBatch(cursor)]
         /\ batch' = [batch EXCEPT ![w] = <<>>]
         /\ UNCHANGED acked_by
    ELSE IF Finished(b)
    THEN /\ stream' = XAck(strm, w[1], AckIds(b))
         /\ worker_pc' = [worker_pc EXCEPT ![w] = XAckPc(cursor)]
         /\ batch' = [batch EXCEPT ![w] = b]
         /\ acked_by' = [acked_by EXCEPT ![w] = @ \cup {<<w[1], id>> : id \in AckIds(b)}]
    ELSE /\ stream' = strm
         /\ worker_pc' = [worker_pc EXCEPT ![w] = HandlePc(cursor)]
         /\ batch' = [batch EXCEPT ![w] = b]
         /\ UNCHANGED acked_by

\* xread_group: the read with cursor "0" returns
XReadPending(w) ==
    /\ worker_pc[w] = "read0"
    /\ Consume(w, stream, Poll(w[1], NewBatch(ReadPending(w[1], Identity(w)))), "0")
    /\ UNCHANGED <<now, lock_key, heartbeat_hash, tick_vars, shutdown, trap_pc, sup_pc,
                   hb_pc, hb_record, max_consumer_count, root, claimed_by, handled_by>>

\* xread_group: the read with cursor ">" returns, with entries or after block(1000)
XReadNew(w) ==
    /\ worker_pc[w] = "readnew"
    /\ LET ids == ReadNew(w[1])
       IN Consume(w, Deliver(stream, w[1], Identity(w), ids), Poll(w[1], NewBatch(ids)), ">")
    /\ UNCHANGED <<now, lock_key, heartbeat_hash, tick_vars, shutdown, trap_pc, sup_pc,
                   hb_pc, hb_record, max_consumer_count, root, claimed_by, handled_by>>

\* handle_task returns in one future of the batch
HandlerReturn(w, i) ==
    /\ worker_pc[w] \in {"handle0", "handlenew"}
    /\ i \in InFlight(batch[w])
    /\ LET id == batch[w][i].id
           done == [batch[w] EXCEPT ![i].st = HandleResult(stream[w[1]][id].payload)]
       IN /\ handled_by' = [handled_by EXCEPT ![w] = @ \cup {<<w[1], id>>}]
          /\ Consume(w, stream, Poll(w[1], done), CursorOf(worker_pc[w]))
    /\ UNCHANGED <<now, lock_key, heartbeat_hash, tick_vars, shutdown, trap_pc, sup_pc,
                   hb_pc, hb_record, max_consumer_count, root, claimed_by>>

\* the reply of the xack arrives
XAckReply(w) ==
    /\ worker_pc[w] \in {"xack0", "xacknew"}
    /\ worker_pc' = [worker_pc EXCEPT ![w] = AfterBatch(CursorOf(worker_pc[w]))]
    /\ batch' = [batch EXCEPT ![w] = <<>>]
    /\ UNCHANGED <<now, broker_vars, tick_vars, shutdown, trap_pc, sup_pc, hb_pc, hb_record,
                   max_consumer_count, root, hist_vars>>

\* select!: shutdown_rx.changed() wins, the xread_group future is dropped where it stands
WorkerCancel(w) ==
    /\ worker_pc[w] \in {"read0", "handle0", "xack0", "readnew", "handlenew", "xacknew"}
    /\ shutdown
    /\ worker_pc' = [worker_pc EXCEPT ![w] = "ended"]
    /\ batch' = [batch EXCEPT ![w] = <<>>]
    /\ UNCHANGED <<now, broker_vars, tick_vars, shutdown, trap_pc, sup_pc, hb_pc, hb_record,
                   max_consumer_count, root, hist_vars>>

\* a variant in which the emitter's tick waits for the worker's handlers to return
EmitterTickAfterHandlers(w) ==
    /\ hb_pc[w] = "select"
    /\ InFlight(batch[w]) = {}
    /\ hb_pc' = [hb_pc EXCEPT ![w] = "hset"]
    /\ hb_record' = [hb_record EXCEPT ![w] = HeartBeat(w[1], Identity(w), now)]
    /\ UNCHANGED <<now, broker_vars, tick_vars, shutdown, trap_pc, sup_pc, worker_pc, batch,
                   max_consumer_count, root, hist_vars>>

\* consumer_task_send_heartbeat: interval.tick() wins, the record is built
EmitterTick(w) ==
    /\ hb_pc[w] = "select"
    /\ hb_pc' = [hb_pc EXCEPT ![w] = "hset"]
    /\ hb_record' = [hb_record EXCEPT ![w] = HeartBeat(w[1], Identity(w), now)]
    /\ UNCHANGED <<now, broker_vars, tick_vars, shutdown, trap_pc, sup_pc, worker_pc, batch,
                   max_consumer_count, root, hist_vars>>

\* the hset of the serialized record, then the loop head
EmitterHset(w) ==
    /\ hb_pc[w] = "hset"
    /\ heartbeat_hash' = [heartbeat_hash EXCEPT ![Identity(w)] = ToJson(hb_record[w])]
    /\ hb_pc' = [hb_pc EXCEPT ![w] = IF shutdown THEN "ended" ELSE "select"]
    /\ UNCHANGED <<now, lock_key, stream, tick_vars, shutdown, trap_pc, sup_pc, worker_pc,
                   batch, hb_record, max_consumer_count, root, hist_vars>>

\* a variant that removes the emitter's own record when it leaves the loop
EmitterBreakAndRemove(w) ==
    /\ hb_pc[w] = "select"
    /\ shutdown
    /\ hb_pc' = [hb_pc EXCEPT ![w] = "ended"]
    /\ heartbeat_hash' = HDel(Identity(w))
    /\ UNCHANGED <<now, lock_key, stream, tick_vars, shutdown, trap_pc, sup_pc, worker_pc,
                   batch, hb_record, max_consumer_count, root, hist_vars>>

\* select!: shutdown_rx.changed() wins
EmitterBreak(w) ==
    /\ hb_pc[w] = "select"
    /\ shutdown
    /\ hb_pc' = [hb_pc EXCEPT ![w] = "ended"]
    /\ UNCHANGED <<now, broker_vars, tick_vars, shutdown, trap_pc, sup_pc, worker_pc, batch,
                   hb_record, max_consumer_count, root, hist_vars>>

\* start_create_task_consumers: create_task_group, then one pair per ordinal
SupStart(s) ==
    /\ sup_pc[s] = "start"
    /\ sup_pc' = [sup_pc EXCEPT ![s] = "join"]
    /\ worker_pc' = [w \in Workers |-> IF w \in Spawned(s) THEN "connect" ELSE worker_pc[w]]
    /\ hb_pc' = [w \in Workers |-> IF w \in Spawned(s) THEN "connect" ELSE hb_pc[w]]
    /\ UNCHANGED <<now, broker_vars, tick_vars, shutdown, trap_pc, batch, hb_record,
                   max_consumer_count, root, hist_vars>>

\* consumer_task_worker_with_heartbeat: the connection is there, both futures start
PairConnect(w) ==
    /\ worker_pc[w] = "connect"
    /\ worker_pc' = [worker_pc EXCEPT ![w] = LoopTop]
    /\ hb_pc' = [hb_pc EXCEPT ![w] = IF shutdown THEN "ended" ELSE "select"]
    /\ UNCHANGED <<now, broker_vars, tick_vars, shutdown, trap_pc, sup_pc, batch, hb_record,
                   max_consumer_count, root, hist_vars>>

\* try_join_all returns Ok once every pair has returned; the guard loop breaks
SupJoin(s) ==
    /\ sup_pc[s] = "join"
    /\ \A w \in Spawned(s) : worker_pc[w] = "ended" /\ hb_pc[w] = "ended"
    /\ sup_pc' = [sup_pc EXCEPT ![s] = "returned"]
    /\ UNCHANGED <<now, broker_vars, tick_vars, shutdown, trap_pc, worker_pc, batch, hb_pc,
                   hb_record, max_consumer_count, root, hist_vars>>

\* a variant whose trap keeps waiting and sends again on the next signal
ShutdownSignalAgain ==
    /\ trap_pc = "waiting"
    /\ shutdown' = ~shutdown
    /\ UNCHANGED <<now, broker_vars, tick_vars, trap_pc, sup_pc, worker_pc, batch, hb_pc,
                   hb_record, max_consumer_count, root, hist_vars>>

\* shutdown_signal: SIGINT or SIGTERM arrives, tx.send(true)
ShutdownSignal ==
    /\ trap_pc = "waiting"
    /\ trap_pc' = "sent"
    /\ shutdown' = TRUE
    /\ UNCHANGED <<now, broker_vars, tick_vars, sup_pc, worker_pc, batch, hb_pc, hb_record,
                   max_consumer_count, root, hist_vars>>

\* a producer appends an entry with the field "message" to stream s; the payload is
\* text the handler accepts ("ok"), text it rejects ("err"), or bytes that are not
\* UTF-8 ("binary")
XAdd(s, payload) ==
    /\ \E id \in ProducedIds :
          /\ stream[s][id].st = "absent"
          /\ \A j \in EntryIds : j < id => stream[s][j].st # "absent"
          /\ stream' = [stream EXCEPT ![s][id] = [st |-> "new", owner |-> "", payload |-> payload]]
    /\ UNCHANGED <<now, lock_key, heartbeat_hash, tick_vars, proc_vars, claimed_by>>

\* a variant in which the failed read ends the worker task
XReadFailEndsTask(w) ==
    /\ worker_pc[w] \in {"read0", "readnew"}
    /\ worker_pc' = [worker_pc EXCEPT ![w] = "ended"]
    /\ UNCHANGED <<now, broker_vars, tick_vars, shutdown, trap_pc, sup_pc, batch, hb_pc,
                   hb_record, max_consumer_count, root, hist_vars>>

\* xread_group: a read fails; the select arm logs and starts its 5 s sleep
XReadFail(w) ==
    /\ worker_pc[w] \in {"read0", "readnew"}
    /\ worker_pc' = [worker_pc EXCEPT ![w] = "sleep"]
    /\ UNCHANGED <<now, broker_vars, tick_vars, shutdown, trap_pc, sup_pc, batch, hb_pc,
                   hb_record, max_consumer_count, root, hist_vars>>

\* consumer_task_send_heartbeat: the hset returns Err; it is logged, the hash is left
\* as it is, then the loop head
EmitterHsetFail(w) ==
    /\ hb_pc[w] = "hset"
    /\ hb_pc' = [hb_pc EXCEPT ![w] = IF shutdown THEN "ended" ELSE "select"]
    /\ UNCHANGED <<now, broker_vars, tick_vars, shutdown, trap_pc, sup_pc, worker_pc,
                   batch, hb_record, max_consumer_count, root, hist_vars>>

\* the 5 s sleep is over, back to the loop head
WorkerWake(w) ==
    /\ worker_pc[w] = "sleep"
    /\ worker_pc' = [worker_pc EXCEPT ![w] = LoopTop]
    /\ UNCHANGED <<now, broker_vars, tick_vars, shutdown, trap_pc, sup_pc, batch, hb_pc,
                   hb_record, max_consumer_count, root, hist_vars>>

\* a variant in which only the failing pair ends and its peers go on running
PairConnectFailKeepsPeers(w) ==
    /\ worker_pc[w] = "connect"
    /\ sup_pc' = [sup_pc EXCEPT ![w[1]] = "sleep"]
    /\ worker_pc' = [worker_pc EXCEPT ![w] = "unborn"]
    /\ hb_pc' = [hb_pc EXCEPT ![w] = "unborn"]
    /\ batch' = [batch EXCEPT ![w] = <<>>]
    /\ UNCHANGED <<now, broker_vars, tick_vars, shutdown, trap_pc, hb_record,
                   max_consumer_count, root, hist_vars>>

\* new_redis_connection_manager fails in one pair: try_join_all returns the error and
\* drops every pair of the pool; the guard logs and starts its 5 s sleep
PairConnectFail(w) ==
    /\ worker_pc[w] = "connect"
    /\ sup_pc' = [sup_pc EXCEPT ![w[1]] = "sleep"]
    /\ worker_pc' = [v \in Workers |-> IF v[1] = w[1] THEN "unborn" ELSE worker_pc[v]]
    /\ hb_pc' = [v \in Workers |-> IF v[1] = w[1] THEN "unborn" ELSE hb_pc[v]]
    /\ batch' = [v \in Workers |-> IF v[1] = w[1] THEN <<>> ELSE batch[v]]
    /\ UNCHANGED <<now, broker_vars, tick_vars, shutdown, trap_pc, hb_record,
                   max_consumer_count, root, hist_vars>>

\* a variant in which the guard returns the error of the pool to start_job_consumers
SupStartFailReturned(s) ==
    /\ sup_pc[s] = "start"
    /\ sup_pc' = [sup_pc EXCEPT ![s] = "returned"]
    /\ root' = [root EXCEPT !.jobs = "failed"]
    /\ UNCHANGED <<now, broker_vars, tick_vars, shutdown, trap_pc, worker_pc, batch, hb_pc,
                   hb_record, max_consumer_count, hist_vars>>

\* create_task_group: new_redis_connection_manager fails and the ? returns the error
\* from start_create_task_consumers; the guard logs and starts its 5 s sleep
SupStartFail(s) ==
    /\ sup_pc[s] = "start"
    /\ sup_pc' = [sup_pc EXCEPT ![s] = "sleep"]
    /\ UNCHANGED <<now, broker_vars, tick_vars, shutdown, trap_pc, worker_pc, batch, hb_pc,
                   hb_record, max_consumer_count, root, hist_vars>>

\* guard_start_create_task_consumers: the sleep is over, the loop starts the pool again
SupRetry(s) ==
    /\ sup_pc[s] = "sleep"
    /\ sup_pc' = [sup_pc EXCEPT ![s] = "start"]
    /\ UNCHANGED <<now, broker_vars, tick_vars, shutdown, trap_pc, worker_pc, batch, hb_pc,
                   hb_record, max_consumer_count, root, hist_vars>>

\* get_pending_messages: the XPENDING reply is an error or does not convert to the
\* annotated tuple; unwrap_or_default() turns it into an empty list
ListPendingFail(t) ==
    /\ tick_pc[t] = "xpending"
    /\ tick_pending' = [tick_pending EXCEPT ![t] = <<>>]
    /\ tick_pc' = [tick_pc EXCEPT ![t] = "hdel"]
    /\ tick_chunk' = [tick_chunk EXCEPT ![t] = 0]
    /\ UNCHANGED <<now, broker_vars, tick_failed, tick_active, tick_msg, last_fire, tick_out,
                   proc_vars, claimed_by>>

\* redistribute_messages_batch: the claim of a chunk returns Err, the chunk is
\* handed to redistribute_messages_individually
ClaimChunkFail(t) ==
    /\ tick_pc[t] = "xclaim"
    /\ tick_pc' = [tick_pc EXCEPT ![t] = "xclaim_one"]
    /\ tick_msg' = [tick_msg EXCEPT ![t] = 0]
    /\ UNCHANGED <<now, broker_vars, tick_failed, tick_active, tick_pending, tick_chunk,
                   last_fire, tick_out, proc_vars, claimed_by>>

\* redistribute_messages_individually: the claim of one message returns Err; it is
\* logged and the loop goes on to the next message
ClaimOneFail(t) ==
    /\ tick_pc[t] = "xclaim_one"
    /\ LET k == tick_chunk[t]
           m == tick_msg[t]
           chunk == Chunk(tick_pending[t], k)
       IN IF m + 1 < Len(chunk)
          THEN /\ tick_msg' = [tick_msg EXCEPT ![t] = m + 1]
               /\ UNCHANGED <<tick_pc, tick_chunk>>
          ELSE /\ tick_pc' = [tick_pc EXCEPT ![t] = AfterChunk(tick_pending[t], k)]
               /\ tick_chunk' = [tick_chunk EXCEPT ![t] = k + 1]
               /\ tick_msg' = [tick_msg EXCEPT ![t] = 0]
    /\ UNCHANGED <<now, broker_vars, tick_failed, tick_active, tick_pending, last_fire, tick_out,
                   proc_vars, claimed_by>>

\* a variant in which the early return deletes the lock key
AcquireFailDropsLock(t) ==
    /\ tick_pc[t] = "acquire"
    /\ lock_key' = NoKey
    /\ tick_pc' = [tick_pc EXCEPT ![t] = "idle"]
    /\ tick_out' = [tick_out EXCEPT ![t] = Returned([@ EXCEPT !.lock_err = TRUE])]
    /\ UNCHANGED <<now, heartbeat_hash, stream, tick_failed, tick_active, tick_pending,
                   tick_chunk, tick_msg, last_fire, proc_vars, claimed_by>>

\* rebalance_with_retry: acquire_rebalance_lock returns Err; unwrap_or(false) makes it
\* "not acquired" and the tick returns Ok(())
AcquireFail(t) ==
    /\ tick_pc[t] = "acquire"
    /\ tick_pc' = [tick_pc EXCEPT ![t] = "idle"]
    /\ tick_out' = [tick_out EXCEPT ![t] = Returned([@ EXCEPT !.lock_err = TRUE])]
    /\ UNCHANGED <<now, broker_vars, tick_failed, tick_active, tick_pending, tick_chunk,
                   tick_msg, last_fire, proc_vars, claimed_by>>

\* rebalance: the hgetall of get_all_consumer_statuses returns Err, the ? returns it
\* and rebalance_with_retry keeps it as rebalance_result
SnapshotFail(t) ==
    /\ tick_pc[t] = "hgetall"
    /\ tick_pc' = [tick_pc EXCEPT ![t] = "release"]
    /\ tick_out' = [tick_out EXCEPT ![t].result = "err"]
    /\ UNCHANGED <<now, broker_vars, tick_failed, tick_active, tick_pending, tick_chunk,
                   tick_msg, last_fire, proc_vars, claimed_by>>

\* a variant in which the error of one consumer's handling ends the pass
RemoveStatusFailEndsPass(t) ==
    /\ tick_pc[t] = "hdel"
    /\ tick_failed' = [tick_failed EXCEPT ![t] = <<>>]
    /\ tick_pc' = [tick_pc EXCEPT ![t] = "release"]
    /\ tick_pending' = [tick_pending EXCEPT ![t] = <<>>]
    /\ tick_chunk' = [tick_chunk EXCEPT ![t] = 0]
    /\ tick_out' = [tick_out EXCEPT ![t] = [@ EXCEPT !.consumer_err = TRUE, !.result = "err"]]
    /\ UNCHANGED <<now, broker_vars, tick_active, tick_msg, last_fire, proc_vars, claimed_by>>

\* rebalance_failed_consumer: remove_consumer_status returns Err and the ? returns it;
\* rebalance logs it and goes on to the next failed consumer
RemoveStatusFail(t) ==
    /\ tick_pc[t] = "hdel"
    /\ LET rest == Tail(tick_failed[t])
       IN /\ tick_failed' = [tick_failed EXCEPT ![t] = rest]
          /\ tick_pc' = [tick_pc EXCEPT ![t] = AfterConsumer(rest, tick_active[t])]
    /\ tick_pending' = [tick_pending EXCEPT ![t] = <<>>]
    /\ tick_chunk' = [tick_chunk EXCEPT ![t] = 0]
    /\ tick_out' = [tick_out EXCEPT ![t].consumer_err = TRUE]
    /\ UNCHANGED <<now, broker_vars, tick_active, tick_msg, last_fire, proc_vars, claimed_by>>

\* rebalance_with_retry: release_rebalance_lock returns Err; it is logged, the key is
\* left as it is and the tick returns rebalance_result
ReleaseFail(t) ==
    /\ tick_pc[t] = "release"
    /\ tick_pc' = [tick_pc EXCEPT ![t] = "idle"]
    /\ tick_failed' = [tick_failed EXCEPT ![t] = <<>>]
    /\ tick_active' = [tick_active EXCEPT ![t] = <<>>]
    /\ claimed_by' = [e \in DOMAIN claimed_by |-> claimed_by[e] \ {t}]
    /\ tick_out' = [tick_out EXCEPT ![t] = Returned([@ EXCEPT !.lock_err = TRUE])]
    /\ UNCHANGED <<now, broker_vars, tick_pending, tick_chunk, tick_msg, last_fire,
                   proc_vars>>

root_vars == <<now, broker_vars, tick_vars, shutdown, trap_pc, sup_pc, worker_pc, batch,
               hb_pc, hb_record, max_consumer_count, hist_vars>>

\* the values of a task whose future has completed
TaskDone == {"returned", "failed"}

\* axum::serve with_graceful_shutdown(shutdown_signal(tx)): the server task returns
\* once shutdown_signal has completed
ServerReturn ==
    /\ root.server = "serving"
    /\ trap_pc = "sent"
    /\ root' = [root EXCEPT !.server = "returned"]
    /\ UNCHANGED root_vars

\* start_job_consumers: try_join! of the two guards returns, both being Ok
JobsReturn ==
    /\ root.jobs = "running"
    /\ \A s \in Streams : sup_pc[s] = "returned"
    /\ root' = [root EXCEPT !.jobs = "returned"]
    /\ UNCHANGED root_vars

\* start_cron_tasks: the scheduler is created, the job added, the scheduler started
CronStart ==
    /\ root.cron = "starting"
    /\ root' = [root EXCEPT !.cron = "waiting"]
    /\ UNCHANGED root_vars

\* start_cron_tasks: JobScheduler::new, the broker connection, Job::new_async, add or
\* start returns Err and the ? returns it from the task
CronStartFail ==
    /\ root.cron = "starting"
    /\ root' = [root EXCEPT !.cron = "failed"]
    /\ UNCHANGED root_vars

\* start_cron_tasks: shutdown_rx.changed() returns, the value is true, the scheduler
\* is shut down and the task returns Ok
CronStop ==
    /\ root.cron = "waiting"
    /\ shutdown
    /\ root' = [root EXCEPT !.cron = "returned"]
    /\ UNCHANGED root_vars

\* main: try_join! over the three JoinHandles completes when every task has finished;
\* a JoinHandle yields Ok(task's result) unless the task panicked, the tuple of
\* results is discarded and main returns Ok(())
MainExit ==
    /\ root.main = "joining"
    /\ root.server \in TaskDone
    /\ root.jobs \in TaskDone
    /\ root.cron \in TaskDone
    /\ root' = [root EXCEPT !.main = "exited_ok"]
    /\ UNCHANGED root_vars

(***************************************************************************)
(* Specifications                                                          *)
(***************************************************************************)
Payloads == {"ok", "err", "binary"}

NoBatches == [w \in Workers |-> <<>>]
NoRecords == [w \in Workers |-> HeartBeat("", "", 0)]
NoHistory == [w \in Workers |-> {}]
NoClaims == [e \in Streams \X EntryIds |-> {}]
EmptyStream == [id \in EntryIds |-> NoEntry]

\* main after the three tokio::spawn calls: every task running, try_join! waiting
RootStart == [server |-> "serving", jobs |-> "running", cron |-> "starting", main |-> "joining"]

TicksIdle ==
    /\ tick_pc = [t \in Rebalancers |-> "idle"]
    /\ tick_failed = [t \in Rebalancers |-> <<>>]
    /\ tick_active = [t \in Rebalancers |-> <<>>]
    /\ tick_pending = [t \in Rebalancers |-> <<>>]
    /\ tick_chunk = [t \in Rebalancers |-> 0]
    /\ tick_msg = [t \in Rebalancers |-> 0]
    /\ last_fire = [t \in Rebalancers |-> -1]
    /\ tick_out = [t \in Rebalancers |-> NoOutcome]

\* main: watch::channel(false), nothing started yet, the streams as the broker has them
ProcessStartOn(count, strm) ==
    /\ now = 0
    /\ lock_key = NoKey
    /\ heartbeat_hash = [f \in HashFields |-> NoField]
    /\ stream = strm
    /\ TicksIdle
    /\ shutdown = FALSE
    /\ trap_pc = "waiting"
    /\ sup_pc = [s \in Streams |-> "start"]
    /\ worker_pc = [w \in Workers |-> "unborn"]
    /\ batch = NoBatches
    /\ hb_pc = [w \in Workers |-> "unborn"]
    /\ hb_record = NoRecords
    /\ max_consumer_count = count
    /\ root = RootStart
    /\ claimed_by = NoClaims
    /\ handled_by = NoHistory
    /\ acked_by = NoHistory

\* the process started on an empty broker
ProcessStart(count) == ProcessStartOn(count, [s \in Streams |-> EmptyStream])

WorkerStep(w) ==
    \/ XReadPending(w)
    \/ XReadNew(w)
    \/ \E i \in 1 .. READ_COUNT : HandlerReturn(w, i)
    \/ XAckReply(w)
    \/ WorkerCancel(w)
    \/ XReadFail(w)
    \/ WorkerWake(w)

EmitterStep(w) ==
    \/ EmitterTick(w)
    \/ EmitterHset(w)
    \/ EmitterBreak(w)

PoolStep(s) ==
    \/ SupStart(s)
    \/ SupJoin(s)
    \/ SupRetry(s)
    \/ \E w \in PoolOf(s) : PairConnect(w) \/ PairConnectFail(w) \/ WorkerStep(w) \/ EmitterStep(w)

TickStep(t) ==
    \/ TickFire(t)
    \/ AcquireLock(t)
    \/ GetStatuses(t)
    \/ ListPending(t)
    \/ ListPendingFail(t)
    \/ ClaimChunk(t)
    \/ ClaimChunkFail(t)
    \/ ClaimOne(t)
    \/ ClaimOneFail(t)
    \/ RemoveStatus(t)
    \/ ReleaseLock(t)

\* The process with both registered pools, one worker each, producers on task_type_a
Init == ProcessStart(1)

Next ==
    \/ ShutdownSignal
    \/ \E s \in Streams : PoolStep(s)
    \/ \E p \in Payloads : XAdd("task_type_a", p)

Spec == Init /\ [][Next]_vars

\* The pool of task_type_a with every ordinal, producers on task_type_a
InitPool == ProcessStart(MaxConsumerCount)

NextPool ==
    \/ ShutdownSignal
    \/ PoolStep("task_type_a")
    \/ \E p \in Payloads : XAdd("task_type_a", p)

SpecPool == InitPool /\ [][NextPool]_vars

\* The broker a killed deployment of two workers on task_type_a left behind at
\* instant 0: the record of ordinal 0 is fresh, the record of ordinal 1 is stale,
\* and entries are pending against either identity
StaleStamps == {-60, -70}
LiveWorker == <<"task_type_a", 0>>
StaleName == ConsumerName("task_type_a", 1)

LeftBehind ==
    /\ now = 0
    /\ lock_key = NoKey
    /\ \E ts \in StaleStamps :
          heartbeat_hash = [f \in HashFields |->
              IF f = StaleName THEN ToJson(HeartBeat("task_type_a", f, ts))
              ELSE IF f = ForeignName THEN NoField
              ELSE ToJson(HeartBeat("task_type_a", f, 0))]
    /\ \E owners \in [ProducedIds -> ConsumerNames] :
          stream = [s \in Streams |->
              IF s = "task_type_a"
              THEN [id \in EntryIds |->
                      IF id \in ProducedIds
                      THEN [st |-> "pending", owner |-> owners[id], payload |-> "ok"]
                      ELSE NoEntry]
              ELSE EmptyStream]
    /\ TicksIdle
    /\ shutdown = FALSE
    /\ trap_pc = "waiting"
    /\ batch = NoBatches
    /\ hb_record = NoRecords
    /\ root = RootStart
    /\ claimed_by = NoClaims
    /\ handled_by = NoHistory
    /\ acked_by = NoHistory

\* The rebalancer processes alone, the consumer process not started again
InitRebalance ==
    /\ LeftBehind
    /\ sup_pc = [s \in Streams |-> "start"]
    /\ worker_pc = [w \in Workers |-> "unborn"]
    /\ hb_pc = [w \in Workers |-> "unborn"]
    /\ max_consumer_count = MaxConsumerCount

NextRebalance ==
    \/ \E t \in Rebalancers : TickStep(t)
    \/ AdvanceTime(Rebalancers)

SpecRebalance == InitRebalance /\ [][NextRebalance]_vars

\* One rebalancer process and the consumer process started again with one worker on
\* task_type_a
InitLifecycle ==
    /\ LeftBehind
    /\ sup_pc = [s \in Streams |-> IF s = "task_type_a" THEN "join" ELSE "start"]
    /\ worker_pc = [w \in Workers |-> IF w = LiveWorker THEN "read0" ELSE "unborn"]
    /\ hb_pc = [w \in Workers |-> IF w = LiveWorker THEN "select" ELSE "unborn"]
    /\ max_consumer_count = 1

NextLifecycle ==
    \/ TickStep(1)
    \/ AdvanceTime({1})
    \/ ShutdownSignal
    \/ WorkerStep(LiveWorker)
    \/ EmitterStep(LiveWorker)

SpecLifecycle == InitLifecycle /\ [][NextLifecycle]_vars

\* One rebalancer process and the consumer process started again with two workers on
\* task_type_a more than 60 s after the previous deployment was killed: both records
\* in the hash are stale until the emitters of the new workers have written; the
\* lock key is the one the tick of 10 s ago set and left in place
InitRestart ==
    /\ now = 0
    /\ lock_key = now - REBALANCE_CHECK_INTERVAL_SECONDS + LOCK_TTL_SECONDS
    /\ heartbeat_hash = [f \in HashFields |->
          IF f = ForeignName THEN NoField ELSE ToJson(HeartBeat("task_type_a", f, -70))]
    /\ \E owners \in [ProducedIds -> ConsumerNames] :
          stream = [s \in Streams |->
              IF s = "task_type_a"
              THEN [id \in EntryIds |->
                      IF id \in ProducedIds
                      THEN [st |-> "pending", owner |-> owners[id], payload |-> "ok"]
                      ELSE NoEntry]
              ELSE EmptyStream]
    /\ TicksIdle
    /\ shutdown = FALSE
    /\ trap_pc = "waiting"
    /\ sup_pc = [s \in Streams |-> IF s = "task_type_a" THEN "join" ELSE "start"]
    /\ worker_pc = [w \in Workers |-> IF w[1] = "task_type_a" THEN "read0" ELSE "unborn"]
    /\ hb_pc = [w \in Workers |-> IF w[1] = "task_type_a" THEN "select" ELSE "unborn"]
    /\ batch = NoBatches
    /\ hb_record = NoRecords
    /\ max_consumer_count = MaxConsumerCount
    /\ root = RootStart
    /\ claimed_by = NoClaims
    /\ handled_by = NoHistory
    /\ acked_by = NoHistory

NextRestart ==
    \/ TickStep(1)
    \/ \E w \in PoolOf("task_type_a") :
          \/ XReadPending(w)
          \/ XReadNew(w)
          \/ \E i \in 1 .. READ_COUNT : HandlerReturn(w, i)
          \/ XAckReply(w)
          \/ EmitterTick(w)
          \/ EmitterHset(w)

SpecRestart == InitRestart /\ [][NextRestart]_vars

\* The pool of task_type_a with one worker against a broker whose replies to the
\* reads and to the heartbeat writes may be errors
NextErrors ==
    \/ ShutdownSignal
    \/ PoolStep("task_type_a")
    \/ XAdd("task_type_a", "ok")
    \/ \E w \in PoolOf("task_type_a") : EmitterHsetFail(w)

SpecErrors == ProcessStart(1) /\ [][NextErrors]_vars

\* One rebalancer process, two live consumers in the hash (the worker of ordinal 0 and
\* the consumer of another process) and MaxBacklog entries pending against the
\* consumer of ordinal 1, whose record is stale; the worker of ordinal 1 has been
\* restarted, its cursor-"0" read returned the entries produced so far, since then the
\* others were claimed to its name, and the handler of the first entry is running
\* (the other payloads are the ones the worker skips); the lock key is the one the
\* tick of 10 s ago set and left in place
StaleWorker == <<"task_type_a", 1>>

InitRedistribute ==
    /\ now = 0
    /\ lock_key = now - REBALANCE_CHECK_INTERVAL_SECONDS + LOCK_TTL_SECONDS
    /\ heartbeat_hash = [f \in HashFields |->
          ToJson(HeartBeat("task_type_a", f, IF f = StaleName THEN -70 ELSE 0))]
    /\ stream = [s \in Streams |->
          IF s = "task_type_a"
          THEN [id \in EntryIds |-> [st |-> "pending", owner |-> StaleName,
                                     payload |-> IF id = 1 THEN "ok" ELSE "binary"]]
          ELSE EmptyStream]
    /\ TicksIdle
    /\ shutdown = FALSE
    /\ trap_pc = "waiting"
    /\ sup_pc = [s \in Streams |-> IF s = "task_type_a" THEN "join" ELSE "start"]
    /\ worker_pc = [w \in Workers |-> IF w = StaleWorker THEN "handle0" ELSE "unborn"]
    /\ hb_pc = [w \in Workers |-> IF w = StaleWorker THEN "select" ELSE "unborn"]
    /\ batch = [w \in Workers |->
          IF w = StaleWorker THEN Poll("task_type_a", NewBatch(ProducedIds)) ELSE <<>>]
    /\ hb_record = NoRecords
    /\ max_consumer_count = MaxConsumerCount
    /\ root = RootStart
    /\ claimed_by = NoClaims
    /\ handled_by = NoHistory
    /\ acked_by = NoHistory

NextRedistribute ==
    \/ TickStep(1)
    \/ \E i \in ProducedIds : HandlerReturn(StaleWorker, i)
    \/ XReadPending(StaleWorker)
    \/ XReadNew(StaleWorker)
    \/ XAckReply(StaleWorker)

SpecRedistribute == InitRedistribute /\ [][NextRedistribute]_vars

\* The whole process: the root with its three tasks, both pools with no worker or one
\* worker each, producers on task_type_a
InitRoot == \E count \in 0 .. 1 : ProcessStart(count)

NextRoot ==
    \/ ShutdownSignal
    \/ \E s \in Streams : PoolStep(s) \/ SupStartFail(s)
    \/ XAdd("task_type_a", "ok")
    \/ ServerReturn
    \/ JobsReturn
    \/ CronStart
    \/ CronStartFail
    \/ CronStop
    \/ MainExit

SpecRoot == InitRoot /\ [][NextRoot]_vars

\* One worker of task_type_a started on a stream that already holds MaxBacklog
\* entries: never delivered, or left pending against the worker's identity by an
\* earlier run; the handler rejects the first entry
BacklogStates == {"new", "pending"}
Backlog(st) ==
    [id \in EntryIds |-> [st |-> st,
                          owner |-> IF st = "pending" THEN Identity(LiveWorker) ELSE "",
                          payload |-> IF id = 1 THEN "err" ELSE "ok"]]

InitBacklog ==
    \E st \in BacklogStates :
        ProcessStartOn(1, [s \in Streams |-> IF s = "task_type_a" THEN Backlog(st) ELSE EmptyStream])

NextBacklog ==
    \/ ShutdownSignal
    \/ PoolStep("task_type_a")

SpecBacklog == InitBacklog /\ [][NextBacklog]_vars

\* One rebalancer process on a heartbeat hash whose field of ordinal 1 holds a stale
\* record and whose field of ordinal 0 holds nothing, a fresh record, a stale record,
\* text that is no record, bytes that are no text, the record of another consumer, or
\* the fresh record written by the worker of ordinal 0 of the pool of task_type_b, or
\* a record stamped by a clock that runs ahead
Name0 == ConsumerName("task_type_a", 0)
HashValues == {NoField,
               ToJson(HeartBeat("task_type_a", Name0, 0)),
               ToJson(HeartBeat("task_type_a", Name0, -70)),
               Garbage,
               Binary,
               ToJson(HeartBeat("task_type_a", StaleName, 0)),
               ToJson(HeartBeat("task_type_b", Name0, 0)),
               ToJson(HeartBeat("task_type_a", Name0, MaxTime + 10))}

SnapshotStart(key) ==
    /\ now = 0
    /\ lock_key = key
    /\ \E v \in HashValues : \E ts \in StaleStamps :
          heartbeat_hash = [f \in HashFields |->
              IF f = StaleName THEN ToJson(HeartBeat("task_type_a", f, ts))
              ELSE IF f = ForeignName THEN NoField
              ELSE v]
    /\ \E owners \in [ProducedIds -> ConsumerNames] :
          stream = [s \in Streams |->
              IF s = "task_type_a"
              THEN [id \in EntryIds |->
                      IF id \in ProducedIds
                      THEN [st |-> "pending", owner |-> owners[id], payload |-> "ok"]
                      ELSE NoEntry]
              ELSE EmptyStream]
    /\ TicksIdle
    /\ shutdown = FALSE
    /\ trap_pc = "waiting"
    /\ sup_pc = [s \in Streams |-> "start"]
    /\ worker_pc = [w \in Workers |-> "unborn"]
    /\ batch = NoBatches
    /\ hb_pc = [w \in Workers |-> "unborn"]
    /\ hb_record = NoRecords
    /\ max_consumer_count = MaxConsumerCount
    /\ root = RootStart
    /\ claimed_by = NoClaims
    /\ handled_by = NoHistory
    /\ acked_by = NoHistory

InitSnapshot == SnapshotStart(NoKey)

NextSnapshot ==
    \/ TickStep(1)
    \/ AdvanceTime({1})

SpecSnapshot == InitSnapshot /\ [][NextSnapshot]_vars

\* The same, started at an instant at which the lock key set by the tick of 10 s ago
\* is still in place
InitClassify == SnapshotStart(LOCK_TTL_SECONDS - REBALANCE_CHECK_INTERVAL_SECONDS)

SpecClassify == InitClassify /\ [][NextSnapshot]_vars

\* The same rebalancer process against a broker whose replies may be errors
TickFaultStep(t) ==
    \/ AcquireFail(t)
    \/ SnapshotFail(t)
    \/ RemoveStatusFail(t)
    \/ ReleaseFail(t)

NextFaults ==
    \/ TickStep(1)
    \/ TickFaultStep(1)
    \/ AdvanceTime({1})

SpecFaults == InitSnapshot /\ [][NextFaults]_vars

\* One worker of task_type_a with its emitter, started on a stream whose entries are
\* pending against the worker's identity (left by the pool's earlier run, or claimed
\* to it by the rebalancer); the broker answers every call and no signal arrives. The
\* runtime polls a task that can take a step: weak fairness of the worker's steps
InitRecover ==
    \E payloads \in [ProducedIds -> Payloads] :
        ProcessStartOn(1, [s \in Streams |->
            IF s = "task_type_a"
            THEN [id \in EntryIds |->
                    IF id \in ProducedIds
                    THEN [st |-> "pending", owner |-> Identity(LiveWorker), payload |-> payloads[id]]
                    ELSE NoEntry]
            ELSE EmptyStream])

RecoverStep(w) ==
    \/ XReadPending(w)
    \/ XReadNew(w)
    \/ \E i \in 1 .. READ_COUNT : HandlerReturn(w, i)
    \/ XAckReply(w)

NextRecover ==
    \/ SupStart("task_type_a")
    \/ PairConnect(LiveWorker)
    \/ RecoverStep(LiveWorker)
    \/ EmitterTick(LiveWorker)
    \/ EmitterHset(LiveWorker)

SpecRecover == InitRecover /\ [][NextRecover]_vars /\ WF_vars(RecoverStep(LiveWorker))

(***************************************************************************)
(* Claims                                                                  *)
(***************************************************************************)
\* the ticks between a successful acquire_rebalance_lock and their release
Holders == {t \in Rebalancers :
              tick_pc[t] \in {"hgetall", "xpending", "xclaim", "xclaim_one", "hdel", "release"}}

\* C1: at any instant at most one rebalancer tick, over all processes sharing the
\* broker, is between a successful acquire_rebalance_lock and its release
C1_AtMostOneHolder == Cardinality(Holders) <= 1

\* the entries still pending against consumer c
PendingAgainst(c) == {e \in Streams \X EntryIds :
                        stream[e[1]][e[2]].st = "pending" /\ stream[e[1]][e[2]].owner = c}

\* every running rebalancer process has fired the job of this instant and it returned
TicksReturned == \A t \in Rebalancers : last_fire[t] = now /\ tick_pc[t] = "idle"

\* C2: the stale consumer is expired from instant 10 at the latest and the consumer of
\* ordinal 0 is live; once the ticks of two later instants have returned, no entry is
\* pending against the stale consumer any more and its heartbeat field is absent
C2_RebalancedInTwoTicks ==
    (now >= 2 * REBALANCE_CHECK_INTERVAL_SECONDS /\ TicksReturned)
        => (PendingAgainst(StaleName) = {} /\ heartbeat_hash[StaleName] = NoField)

\* C9: no pending id is claimed by the ticks of two rebalancer processes that run
\* concurrently: one of them reassigns, the other returns without claiming
C9_NoDoubleClaim == \A e \in Streams \X EntryIds : Cardinality(claimed_by[e]) <= 1

HandlePcs == {"handle0", "handlenew"}
XAckPcs == {"xack0", "xacknew"}

\* the worker task exists and has not returned
Running(w) == worker_pc[w] \notin {"unborn", "ended"}

\* consumer_task_worker has been entered and has not returned
Alive(w) == worker_pc[w] \notin {"unborn", "connect", "ended"}

\* the entries whose "message" value is text, so that handle_task is called for them
TextEntries == {e \in Streams \X EntryIds : stream[e[1]][e[2]].payload \in {"ok", "err"}}

\* C3: a worker names an entry in an xack only after handle_task has returned for
\* that entry in this worker
C3_AckedOnlyAfterHandled == \A w \in Workers : acked_by[w] \subseteq handled_by[w]

C5_WorkersReturn ==
    shutdown ~> (\A w \in Workers : ~Alive(w) /\ hb_pc[w] \notin {"select", "hset"})

\* shutdown came while a worker had a handler in flight, and every task has returned
C5_Witness ==
    /\ shutdown
    /\ worker_pc[LiveWorker] = "ended"
    /\ hb_pc[LiveWorker] = "ended"
    /\ \E e \in Streams \X EntryIds : stream[e[1]][e[2]].st = "pending"

\* C6: the shutdown value is false at the start, changes only in the step of the
\* signal trap, from false to true, and the trap sends once
C6_ShutdownBus ==
    /\ shutdown = FALSE
    /\ [][/\ shutdown' # shutdown => (trap_pc = "waiting" /\ trap_pc' = "sent" /\ ~shutdown /\ shutdown')
          /\ shutdown => shutdown'
          /\ trap_pc = "sent" => trap_pc' = "sent"]_vars

\* the value is true while a worker and an emitter are still running
C6_Witness ==
    /\ shutdown
    /\ trap_pc = "sent"
    /\ \E w \in Workers : Running(w) /\ hb_pc[w] = "hset"

\* C7: no two running workers of the process have the same identity
C7_UniqueIdentities ==
    \A w1, w2 \in Workers :
        (Running(w1) /\ Running(w2) /\ Identity(w1) = Identity(w2)) => w1 = w2

\* C8 as stated: the record of the running worker's identity exists exactly while
\* the worker is alive
C8_RecordIffAlive == (heartbeat_hash[Identity(LiveWorker)] # NoField) <=> Alive(LiveWorker)

\* C8 amended: a record appears only by the hset of an emitter with that identity and
\* disappears only by remove_consumer_status of a tick handling that consumer; no step
\* of a worker or an emitter removes a record
C8_RecordLifecycle ==
    [][\A x \in ConsumerNames :
          /\ (heartbeat_hash[x] = NoField /\ heartbeat_hash'[x] # NoField)
                => \E w \in Workers : Identity(w) = x /\ hb_pc[w] = "hset" /\ hb_pc'[w] # "hset"
          /\ (heartbeat_hash[x] # NoField /\ heartbeat_hash'[x] = NoField)
                => \E t \in Rebalancers :
                      /\ tick_pc[t] = "hdel"
                      /\ tick_pc'[t] # "hdel"
                      /\ Head(tick_failed[t]).consumer_name = x]_vars

\* the worker and its emitter have returned and their record is still in the hash,
\* while the rebalancer has removed the stale record
C8_Witness ==
    /\ worker_pc[LiveWorker] = "ended"
    /\ hb_pc[LiveWorker] = "ended"
    /\ heartbeat_hash[Identity(LiveWorker)] # NoField
    /\ heartbeat_hash[StaleName] = NoField

\* C10: when a worker has returned, the entries it acknowledged are the entries whose
\* handle_task returned in it (entries for which handle_task is never called, see C3,
\* left aside)
C10_AckedEqualsHandled ==
    \A w \in Workers :
        worker_pc[w] = "ended" => (acked_by[w] \cap TextEntries) = handled_by[w]

\* One worker of task_type_a with its emitter, started by the supervisor, under weak
\* fairness of the two tasks: the runtime polls a task that can take a step
InitFair == ProcessStart(1)

NextFair ==
    \/ ShutdownSignal
    \/ PoolStep("task_type_a")
    \/ \E p \in Payloads : XAdd("task_type_a", p)

SpecFair ==
    InitFair /\ [][NextFair]_vars
             /\ WF_vars(WorkerStep(LiveWorker)) /\ WF_vars(EmitterStep(LiveWorker))

\* C11: at every instant each worker has at most 5 handle_task invocations in flight,
\* all of them futures of the one batch the worker is consuming, and that batch is the
\* reply of one read: at most 10 entries, no id twice, every id delivered
C11_BoundedHandlers ==
    \A w \in Workers :
        /\ Cardinality(InFlight(batch[w])) <= HANDLER_CONCURRENCY
        /\ Len(batch[w]) <= READ_COUNT
        /\ Cardinality(BatchIds(batch[w])) = Len(batch[w])
        /\ InFlight(batch[w]) # {} => worker_pc[w] \in HandlePcs
        /\ \A id \in BatchIds(batch[w]) : stream[w[1]][id].st \in {"pending", "acked"}

\* a read returned 10 of the 11 entries, 5 handlers are in flight and others wait
C11_Witness ==
    \E w \in Workers :
        /\ Len(batch[w]) = READ_COUNT
        /\ Cardinality(InFlight(batch[w])) = HANDLER_CONCURRENCY
        /\ Queued(batch[w]) # {}
        /\ \E i \in 1 .. Len(batch[w]) : batch[w][i].st = "ok"

\* the entries of a stream that have been acknowledged
AckedIds(strm, s) == {id \in EntryIds : strm[s][id].st = "acked"}

TaskFailed == "failed" \in {root.server, root.jobs, root.cron}

\* C13: once a top-level task has returned an error the process does not end with
\* success: the root stops waiting and fails
C13_FailFast == TaskFailed => root.main # "exited_ok"

\* C14: a pool supervisor has returned only if shutdown has been signalled and every
\* worker and emitter it started has returned; a pool of no workers included
C14_SupervisorReturn ==
    \A s \in Streams :
        sup_pc[s] = "returned"
            => /\ shutdown
               /\ \A w \in Spawned(s) : worker_pc[w] = "ended" /\ hb_pc[w] = "ended"

\* C15: the snapshot a tick takes holds a status for exactly the fields whose value is
\* a heartbeat record naming the field, whatever the other fields hold
C15_SnapshotOfValidRecords ==
    [][\A t \in Rebalancers :
          (tick_pc[t] = "hgetall" /\ tick_pc'[t] # "hgetall")
              => {hb.consumer_name : hb \in SeqSet(tick_failed'[t]) \cup SeqSet(tick_active'[t])}
                    = {f \in ConsumerNames : /\ heartbeat_hash[f].kind = "json"
                                             /\ heartbeat_hash[f].consumer_name = f}]_vars

\* C16: a tick whose snapshot has no live consumer never lists or claims; its step for
\* an expired consumer removes the consumer's field, leaves every stream as it is and
\* goes on (the pass returns Ok), and a removed field is in no later snapshot
C16_NoLiveConsumer ==
    /\ [](\A t \in Rebalancers :
            tick_active[t] = <<>> => tick_pc[t] \notin {"xpending", "xclaim", "xclaim_one"})
    /\ [][\A t \in Rebalancers :
            /\ (tick_pc[t] = "hdel" /\ tick_active[t] = <<>> /\ tick_failed'[t] # tick_failed[t])
                  => /\ heartbeat_hash'[Head(tick_failed[t]).consumer_name] = NoField
                     /\ stream' = stream
                     /\ claimed_by' = claimed_by
                     /\ tick_failed'[t] = Tail(tick_failed[t])
                     /\ tick_pc'[t] \in {"hdel", "release"}
            /\ (tick_pc[t] = "hgetall" /\ tick_pc'[t] # "hgetall")
                  => \A hb \in SeqSet(tick_failed'[t]) \cup SeqSet(tick_active'[t]) :
                        heartbeat_hash[hb.consumer_name] # NoField]_vars

\* no consumer was live: the stale consumer's field has been removed by a tick that
\* has returned, and its entries are still pending against it
C16_Witness ==
    /\ heartbeat_hash[Name0].kind \in {"nil", "text"}
    /\ heartbeat_hash[StaleName] = NoField
    /\ PendingAgainst(StaleName) # {}
    /\ \E t \in Rebalancers : tick_pc[t] = "idle" /\ last_fire[t] = now

\* C17: an entry pending against the identity of a running worker is eventually
\* handled by that worker and acknowledged, unless the worker has stopped
C17_PendingRecovered ==
    \A id \in ProducedIds :
        (/\ Alive(LiveWorker)
         /\ stream["task_type_a"][id].st = "pending"
         /\ stream["task_type_a"][id].owner = Identity(LiveWorker))
            ~> (\/ /\ stream["task_type_a"][id].st = "acked"
                   /\ <<"task_type_a", id>> \in handled_by[LiveWorker]
                \/ ~Alive(LiveWorker))

\* C18: the acquire of a tick reports success exactly when the lock key was absent,
\* and then the key is set with its TTL; when the key exists it is left as it is
C18_AcquireIffNewlySet ==
    [][\A t \in Rebalancers :
          (tick_pc[t] = "acquire" /\ tick_pc'[t] # "acquire")
              => /\ (tick_pc'[t] = "hgetall") <=> ~KeyPresent(lock_key, now)
                 /\ KeyPresent(lock_key, now) => lock_key' = lock_key
                 /\ ~KeyPresent(lock_key, now) => lock_key' = now + LOCK_TTL_SECONDS]_vars

\* C19: when a tick removes the field of an expired consumer whose pending ids it had
\* listed, none of the listed ids is still pending against that consumer (an id whose
\* claim failed keeps the field, so that the next tick handles the consumer again)
C19_UnclaimedRetried ==
    [][\A t \in Rebalancers :
          (tick_pc[t] = "hdel" /\ tick_failed'[t] # tick_failed[t])
              => \A id \in SeqSet(tick_pending[t]) :
                    LET c == Head(tick_failed[t])
                    IN ~(/\ stream[c.stream_name][id].st = "pending"
                         /\ stream[c.stream_name][id].owner = c.consumer_name)]_vars

\* C20: a worker returns only from the loop head: not while a read with cursor "0" is
\* out, not while handlers of a batch are in flight or waiting, not before the reply
\* of an xack
C20_ReadCycleCompletes ==
    [][\A w \in Workers :
          (worker_pc'[w] = "ended" /\ worker_pc[w] # "ended")
              => /\ worker_pc[w] \in {"connect", "readnew", "xacknew", "sleep"}
                 /\ InFlight(batch[w]) \cup Queued(batch[w]) = {}]_vars

\* C21: a tick that took the rebalance lock releases it before it returns, whether the
\* rebalance pass succeeded or returned an error: once every tick has returned, the
\* lock key is absent
C21_ReleasedBeforeReturn ==
    (\A t \in Rebalancers : tick_pc[t] = "idle") => ~KeyPresent(lock_key, now)

\* C22 as stated: a tick that returned an error had a failure of the lock commands
\* (acquire or release) and nothing else makes it return an error
C22_ErrorOnlyFromLock ==
    \A t \in Rebalancers :
        (tick_pc[t] = "idle" /\ tick_out[t].result = "err") => tick_out[t].lock_err

\* C22 amended: the result of a tick becomes an error only at the snapshot of the
\* heartbeat hash; a failed acquire, a failed release and the error of one consumer's
\* handling leave the result as it is, and after the handling of a failed consumer,
\* whatever its outcome, the pass goes on with the next failed consumer
C22_ErrorOnlyFromSnapshot ==
    [][\A t \in Rebalancers :
          /\ (tick_out'[t].result = "err" /\ tick_out[t].result # "err")
                => tick_pc[t] = "hgetall"
          /\ (tick_pc[t] = "hdel" /\ tick_failed'[t] # tick_failed[t])
                => /\ tick_failed'[t] = Tail(tick_failed[t])
                   /\ tick_pc'[t] = AfterConsumer(tick_failed'[t], tick_active[t])]_vars

\* a tick returned Ok although a lock command and the handling of a consumer failed
C22_Witness ==
    \E t \in Rebalancers :
        /\ tick_pc[t] = "idle"
        /\ tick_out[t] = [result |-> "ok", lock_err |-> TRUE, consumer_err |-> TRUE]

\* C23 as stated: a pool whose start failed (the connection of create_task_group or of
\* a pair could not be established) has its failure at the process root and the
\* shutdown bus fired
C23_StartFailureFatal ==
    \A s \in Streams : sup_pc[s] = "sleep" => (shutdown /\ root.jobs = "failed")

\* C23 amended: a failed start of a pool leaves the shutdown bus and the process root
\* as they are and puts the supervisor into its sleep, from which it starts the pool
\* again; the consumer task never returns an error to the root
C23_StartFailureRetried ==
    [][\A s \in Streams :
          /\ (sup_pc'[s] = "sleep" /\ sup_pc[s] # "sleep")
                => (shutdown' = shutdown /\ root' = root)
          /\ (sup_pc[s] = "sleep" /\ sup_pc'[s] # "sleep") => sup_pc'[s] = "start"
          /\ root'.jobs # "failed"]_vars

\* a pool failed to start while nothing has been signalled: its supervisor sleeps, the
\* root still waits on its three tasks
C23_Witness ==
    \E s \in Streams :
        /\ sup_pc[s] = "sleep"
        /\ \A w \in PoolOf(s) : worker_pc[w] = "unborn"
        /\ ~shutdown
        /\ root.jobs = "running" /\ root.main = "joining"

\* C24: the ids a tick obtains for an expired consumer with a live peer are exactly
\* the entries pending against that consumer on its stream at the listing
C24_PendingOfConsumer ==
    [][\A t \in Rebalancers :
          (tick_pc[t] = "xpending" /\ tick_pc'[t] # "xpending")
              => LET c == Head(tick_failed[t])
                 IN SeqSet(tick_pending'[t])
                      = {id \in EntryIds : <<c.stream_name, id>> \in PendingAgainst(c.consumer_name)}]_vars

\* C25: every claim a tick issues on a stream names as new owner a live consumer of
\* its snapshot whose record has that stream as stream_name
C25_TargetReadsStream ==
    [][\A t \in Rebalancers :
          tick_pc[t] \in {"xclaim", "xclaim_one"}
              => \A s \in Streams : \A id \in EntryIds :
                    stream'[s][id].owner # stream[s][id].owner
                        => \E i \in 1 .. Len(tick_active[t]) :
                              /\ tick_active[t][i].consumer_name = stream'[s][id].owner
                              /\ tick_active[t][i].stream_name = s]_vars

\* C26: the release of a tick leaves the lock key in place while another tick is
\* between its acquire and its release
C26_ReleaseKeepsOthersLock ==
    [][\A t \in Rebalancers :
          (tick_pc[t] = "release" /\ tick_pc'[t] = "idle" /\ Holders \ {t} # {})
              => lock_key' = lock_key]_vars

\* C27: a heartbeat field is deleted only while the record stored under it is expired
C27_DeletesOnlyExpired ==
    [][\A f \in ConsumerNames :
          (heartbeat_hash[f] # NoField /\ heartbeat_hash'[f] = NoField)
              => /\ FromJsonOk(heartbeat_hash[f])
                 /\ IsFailed(FromJson(heartbeat_hash[f]), now)]_vars

\* the entries whose handle_task invocation is running in worker w
Handling(w) == {batch[w][i].id : i \in InFlight(batch[w])}

\* C28: no entry is being handled by two running workers of a stream at once
C28_OneHandlerPerEntry ==
    \A w \in Workers : \A v \in Workers :
        (w # v /\ w[1] = v[1] /\ Running(w) /\ Running(v)) => Handling(w) \cap Handling(v) = {}

\* C29: while a tick is listing or claiming the pending entries of an expired
\* consumer, that consumer's record is still in the hash and still expired, so that a
\* tick that stops there leaves the consumer to the next tick
C29_RecordKeptUntilClaimed ==
    \A t \in Rebalancers :
        tick_pc[t] \in {"xpending", "xclaim", "xclaim_one"}
            => LET c == Head(tick_failed[t])
               IN /\ heartbeat_hash[c.consumer_name] # NoField
                  /\ FromJsonOk(heartbeat_hash[c.consumer_name])
                  /\ IsFailed(FromJson(heartbeat_hash[c.consumer_name]), now)

\* C30: when a pair of a pool returns an error, every task of the pool is gone before
\* the supervisor sleeps, none exists while it sleeps or is about to start the pool
\* again, the sleep is followed by the start only, and the start creates the pairs of
\* the same identities anew at their connect
C30_PoolRestart ==
    [][\A s \in Streams :
          /\ sup_pc'[s] \in {"sleep", "start"}
                => \A w \in PoolOf(s) :
                      worker_pc'[w] = "unborn" /\ hb_pc'[w] = "unborn" /\ batch'[w] = <<>>
          /\ (sup_pc[s] = "sleep" /\ sup_pc'[s] # "sleep") => sup_pc'[s] = "start"
          /\ (sup_pc[s] = "start" /\ sup_pc'[s] # "start")
                => /\ sup_pc'[s] = "join"
                   /\ \A w \in PoolOf(s) :
                         worker_pc'[w] = IF w \in Spawned(s) THEN "connect" ELSE "unborn"]_vars

\* a pool started again after a failure: a new pair is at its connect while an entry
\* the old generation read is still pending against its identity
C30_Witness ==
    \E w \in Workers :
        /\ sup_pc[w[1]] = "join"
        /\ worker_pc[w] = "connect"
        /\ \E id \in EntryIds :
              stream[w[1]][id].st = "pending" /\ stream[w[1]][id].owner = Identity(w)

WorkerCanStep(v) ==
    /\ worker_pc[v] = "read0" => ENABLED XReadPending(v)
    /\ worker_pc[v] = "readnew" => ENABLED XReadNew(v)
    /\ worker_pc[v] \in HandlePcs => \A i \in InFlight(batch[v]) : ENABLED HandlerReturn(v, i)
    /\ worker_pc[v] \in XAckPcs => ENABLED XAckReply(v)

\* the step the code of the emitter of worker w is waiting for can be taken
EmitterCanStep(w) ==
    /\ hb_pc[w] = "select" => ENABLED EmitterTick(w)
    /\ hb_pc[w] = "hset" => ENABLED EmitterHset(w)

C33_NoGenerationAfterShutdown ==
    [][\A s \in Streams :
          (shutdown /\ sup_pc[s] = "sleep") => sup_pc'[s] \in {"sleep", "returned"}]_vars

\* C34: the heartbeat field of an expired consumer with a live peer is deleted only
\* after a listing that succeeded: at the deletion every entry pending against the
\* consumer on its stream is one the tick's listing returned
C34_DeletedAfterListing ==
    [][\A t \in Rebalancers :
          (tick_pc[t] = "hdel" /\ tick_active[t] # <<>> /\ tick_failed'[t] # tick_failed[t])
              => LET c == Head(tick_failed[t])
                 IN {id \in EntryIds : <<c.stream_name, id>> \in PendingAgainst(c.consumer_name)}
                       \subseteq SeqSet(tick_pending[t])]_vars

\* C35: every id of a tick's listing is, at the listing, pending against the expired
\* consumer the tick is handling; a claim of the tick leaves the listing as it is and
\* changes entries of that listing on that consumer's stream only
C35_ClaimsOnlyListed ==
    [][\A t \in Rebalancers :
          /\ (tick_pc[t] = "xpending" /\ tick_pc'[t] # "xpending")
                => LET c == Head(tick_failed[t])
                   IN \A id \in SeqSet(tick_pending'[t]) :
                         /\ stream[c.stream_name][id].st = "pending"
                         /\ stream[c.stream_name][id].owner = c.consumer_name
          /\ tick_pc[t] \in {"xclaim", "xclaim_one"}
                => /\ tick_pending'[t] = tick_pending[t]
                   /\ tick_failed'[t] = tick_failed[t]
                   /\ \A s \in Streams : \A id \in EntryIds :
                         stream'[s][id] # stream[s][id]
                             => /\ s = Head(tick_failed[t]).stream_name
                                /\ id \in SeqSet(tick_pending[t])]_vars

\* a tick has claimed an entry of the expired consumer while an entry pending against
\* the live consumer was left untouched
C35_Witness ==
    \E id \in EntryIds : \E other \in EntryIds :
        /\ claimed_by[<<"task_type_a", id>>] # {}
        /\ claimed_by[<<"task_type_a", other>>] = {}
        /\ stream["task_type_a"][other].st = "pending"
        /\ stream["task_type_a"][other].owner = Name0

C37_ReadsAndAcksSerial ==
    [][\A w \in Workers :
          /\ worker_pc[w] \in {"read0", "readnew"} => batch[w] = <<>>
          /\ (batch[w] # <<>> /\ worker_pc'[w] \in {"read0", "readnew"})
                => \A id \in BatchIds(batch[w]) : <<w[1], id>> \in acked_by'[w]
          /\ (worker_pc'[w] = "readnew" /\ worker_pc[w] # "readnew")
                => worker_pc[w] \in {"read0", "xack0"}
          /\ (worker_pc'[w] \in {"handle0", "xack0"} /\ worker_pc[w] # worker_pc'[w])
                => worker_pc[w] \in {"read0", "handle0"}
          /\ (worker_pc'[w] \in {"handlenew", "xacknew"} /\ worker_pc[w] # worker_pc'[w])
                => worker_pc[w] \in {"readnew", "handlenew"}]_vars

\* a worker is at the read with cursor ">" of a later cycle, after its cursor-"0"
\* read, having acknowledged the entries of earlier batches
C37_Witness ==
    \E w \in Workers :
        /\ worker_pc[w] = "readnew"
        /\ Cardinality(acked_by[w]) >= 2

C40_ExpiredIffOlderThan60 ==
    [][\A t \in Rebalancers :
          (tick_pc[t] = "hgetall" /\ tick_pc'[t] # "hgetall" /\ tick_out'[t].result # "err")
              => LET failed == tick_failed'[t]
                     live == tick_active'[t]
                 IN /\ \A f \in ValidFields :
                          LET hb == FromJson(heartbeat_hash[f])
                          IN /\ (\E i \in 1 .. Len(failed) : failed[i] = hb)
                                    <=> (now - hb.last_heartbeat > 60)
                             /\ (\E i \in 1 .. Len(live) : live[i] = hb)
                                    <=> (now - hb.last_heartbeat <= 60)
                    /\ Len(failed) + Len(live) = Cardinality(ValidFields)]_vars

\* a tick has classified as live a record exactly 60 s old and a record whose
\* timestamp lies in the future
C40_Witness ==
    \E t \in Rebalancers :
        /\ tick_pc[t] = "release"
        /\ last_fire[t] = now
        /\ \E i \in 1 .. Len(tick_active[t]) : now - tick_active[t][i].last_heartbeat = 60
        /\ \E j \in 1 .. Len(tick_active[t]) : tick_active[t][j].last_heartbeat > now

====
